---- MODULE Spec2Model ----
(***************************************************************************)
(* Multi-tenant schema provisioning, reconciliation and tenant session     *)
(* scoping of the wep backend (app/config/database.py and                  *)
(* app/api/endpoints/token.py), PostgreSQL and SQLite backends.            *)
(*                                                                         *)
(* Names (tenant ids, schema names) are tuples of one-character strings so *)
(* that the naming rule, strip()/lower() and the SQL identifier folding    *)
(* can be computed character by character.                                 *)
(***************************************************************************)
EXTENDS Integers, Sequences, FiniteSets, TLC

\* ------------------------------------------------------------------------
\* Characters and names
\* ------------------------------------------------------------------------
LowerSeq == <<"a","b","c","d","e","f","g","h","i","j","k","l","m",
              "n","o","p","q","r","s","t","u","v","w","x","y","z">>

UpperSeq == <<"A","B","C","D","E","F","G","H","I","J","K","L","M",
              "N","O","P","Q","R","S","T","U","V","W","X","Y","Z">>

DigitSeq == <<"0","1","2","3","4","5","6","7","8","9">>

Range(f) == {f[i] : i \in DOMAIN f}

Digits == Range(DigitSeq)

\* the character class [a-zA-Z0-9_] of the naming rule
SafeChars == Range(LowerSeq) \cup Range(UpperSeq) \cup Digits \cup {"_"}

\* characters str.strip() removes and the SQL lexer skips
Whitespace == {" ", "\n", "\t"}

\* {1,50} of the naming rule
MaxSchemaNameLen == 50

AllSafe(s) == \A i \in 1..Len(s) : s[i] \in SafeChars

\* str.lower() on one character
LowerChar(c) ==
    IF \E i \in 1..26 : UpperSeq[i] = c
    THEN LowerSeq[CHOOSE i \in 1..26 : UpperSeq[i] = c]
    ELSE c

\* str.lower(), and the folding of an unquoted SQL identifier
RECURSIVE Lower(_)
Lower(s) == IF s = <<>> THEN <<>> ELSE <<LowerChar(Head(s))>> \o Lower(Tail(s))

RECURSIVE LStrip(_)
LStrip(s) == IF s # <<>> /\ Head(s) \in Whitespace THEN LStrip(Tail(s)) ELSE s

RECURSIVE RStrip(_)
RStrip(s) ==
    IF s # <<>> /\ s[Len(s)] \in Whitespace
    THEN RStrip(SubSeq(s, 1, Len(s) - 1))
    ELSE s

\* str.strip()
Strip(s) == LStrip(RStrip(s))

\* `not client_name or client_name.strip() == ""`
IsBlank(s) == s = <<>> \/ Strip(s) = <<>>

\* re.match(r'^[a-zA-Z0-9_]{1,50}$', s): Python's `$` matches at the end of
\* the string and also just before one trailing newline.
RegexBody(s) ==
    IF s # <<>> /\ s[Len(s)] = "\n" THEN SubSeq(s, 1, Len(s) - 1) ELSE s

ReMatchSchemaPattern(s) ==
    LET w == RegexBody(s)
    IN  /\ Len(w) >= 1
        /\ Len(w) <= MaxSchemaNameLen
        /\ AllSafe(w)

\* validate_schema_name, with the backend flag passed in
validate_schema_name(schema_name, sqlite) ==
    IF sqlite
    THEN schema_name # <<>> /\ Strip(schema_name) # <<>>
    ELSE ReMatchSchemaPattern(schema_name)

\* The naming rule as the specification states it: 1 to 50 characters drawn
\* only from [a-zA-Z0-9_].
NameIsSafe(s) == Len(s) >= 1 /\ Len(s) <= MaxSchemaNameLen /\ AllSafe(s)

\* What PostgreSQL makes of a name interpolated unquoted into a statement
\* (f"CREATE SCHEMA IF NOT EXISTS {client_name}"): surrounding whitespace is
\* skipped by the lexer, letters are folded to lower case; anything that is
\* not a plain identifier is a syntax error of the whole statement.
SqlWellFormed(s) ==
    LET w == Strip(s)
    IN  w # <<>> /\ AllSafe(w) /\ w[1] \notin Digits

SqlIdent(s) == Lower(Strip(s))

PublicSchema == <<"p","u","b","l","i","c">>

\* ORDER BY client: names compared character by character in code order
CharOrder == <<"\t", "\n", " ", "'">> \o DigitSeq \o <<";">> \o UpperSeq
             \o <<"_">> \o LowerSeq

CharRank(c) == CHOOSE i \in 1..Len(CharOrder) : CharOrder[i] = c

RECURSIVE NameLess(_, _)
NameLess(a, b) ==
    IF b = <<>> THEN FALSE
    ELSE IF a = <<>> THEN TRUE
    ELSE IF Head(a) = Head(b) THEN NameLess(Tail(a), Tail(b))
    ELSE CharRank(Head(a)) < CharRank(Head(b))

MinName(cs) == CHOOSE x \in cs : \A y \in cs \ {x} : NameLess(x, y)

\* ------------------------------------------------------------------------
\* Catalog: tables, seed data
\* ------------------------------------------------------------------------
\* the list of seed tables without its last entry
tables_with_initial_data_short == <<"header", "contact", "company">>

\* tables_with_initial_data, in the order the seed-copy loop visits them
tables_with_initial_data == <<"header", "contact", "company", "carrousel">>

SeedTables == Range(tables_with_initial_data)

\* NOT IN ('user2', 'active_sessions', 'google_calendar_tokens')
ExcludedTables == {"user2", "active_sessions", "google_calendar_tokens"}

\* every table name of the model, in ORDER BY table_name order
TableOrder == <<"active_sessions", "carrousel", "company", "contact",
                "google_calendar_tokens", "header", "news", "user2">>

AllTables == Range(TableOrder)

\* number of fixed starter rows create_initial_<entity> inserts
InitialRowCount(t) ==
    CASE t = "header"    -> 1
      [] t = "contact"   -> 1
      [] t = "company"   -> 3
      [] t = "carrousel" -> 5
      [] OTHER           -> 0

\* a column without a default
NoDefault == <<>>

\* the sequence "<table>_id_seq" of schema s is identified by <<s, table>>
SeqOf(s, t) == <<s, t>>

\* ------------------------------------------------------------------------
\* Database values: [schemas, tbl, seq]
\*   tbl : <<schema, table>> -> [rows, dflt]   (dflt: sequence feeding id)
\*   seq : <<schema, table>> -> last value     (0: never used)
\* ------------------------------------------------------------------------
TableExists(D, s, t) == <<s, t>> \in DOMAIN D.tbl

Rows(D, s, t) == D.tbl[<<s, t>>].rows

RowsOrNone(D, s, t) == IF TableExists(D, s, t) THEN Rows(D, s, t) ELSE {}

TablesOf(D, s) == {t \in AllTables : TableExists(D, s, t)}

Ids(rows) == {r.id : r \in rows}

\* COALESCE(MAX(id), 0)
MaxId(rows) ==
    IF rows = {} THEN 0
    ELSE CHOOSE m \in Ids(rows) : \A i \in Ids(rows) : i <= m

SortedTables(S) == SelectSeq(TableOrder, LAMBDA t : t \in S)

\* INSERT of k rows that take their id from the column default (nextval)
RECURSIVE InsertDefaultRows(_, _, _, _, _)
InsertDefaultRows(D, s, t, k, origin) ==
    IF k = 0 THEN D
    ELSE LET q  == D.tbl[<<s, t>>].dflt
             id == D.seq[q] + 1
             D1 == [D EXCEPT !.seq[q] = id,
                             !.tbl[<<s, t>>].rows = @ \cup {[id |-> id, origin |-> origin]}]
         IN  InsertDefaultRows(D1, s, t, k - 1, origin)

\* whether an INSERT of k default-id rows succeeds (id column is the primary
\* key: NOT NULL and unique)
InsertDefaultOk(D, s, t, k) ==
    LET q == D.tbl[<<s, t>>].dflt
    IN  /\ q # NoDefault
        /\ q \in DOMAIN D.seq
        /\ \A i \in 1..k : (D.seq[q] + i) \notin Ids(Rows(D, s, t))

\* create_initial_<entity> without its count == 0 test
create_initial_without_count(D, t) ==
    InsertDefaultRows(D, PublicSchema, t, InitialRowCount(t), "seed")

\* create_initial_header / _contact / _company / _carrousels: own session,
\* inserts the fixed starter rows into public.<t> when it has no rows
create_initial(D, t) ==
    IF Rows(D, PublicSchema, t) = {}
    THEN InsertDefaultRows(D, PublicSchema, t, InitialRowCount(t), "seed")
    ELSE D

\* the table list without its NOT IN (...) condition
get_all_tables_with_user(D) ==
    SortedTables(TablesOf(D, PublicSchema))

\* get_all_tables_except_user, PostgreSQL branch
get_all_tables_except_user(D) ==
    SortedTables(TablesOf(D, PublicSchema) \ ExcludedTables)

\* information_schema.schemata WHERE schema_name = :schema_name
\* (bound parameter: compared as given, no folding)
schema_exists(D, name) == name \in D.schemas

\* CREATE TABLE IF NOT EXISTS s.t (LIKE public.t INCLUDING CONSTRAINTS
\* INCLUDING INDEXES): defaults are not copied
CreateTableLikeNoDefaults(D, s, t) ==
    IF TableExists(D, s, t) THEN D
    ELSE [D EXCEPT !.tbl = @ @@ (<<s, t>> :> [rows |-> {}, dflt |-> NoDefault])]

\* CREATE TABLE IF NOT EXISTS s.t (LIKE public.t INCLUDING ALL): the id
\* default is copied and keeps naming the sequence of public.t
CreateTableLikeAll(D, s, t) ==
    IF TableExists(D, s, t) THEN D
    ELSE [D EXCEPT !.tbl = @ @@ (<<s, t>> :>
              [rows |-> {}, dflt |-> D.tbl[<<PublicSchema, t>>].dflt])]

\* create_tenant_sequences: for the nextval column of public.t create
\* <client>.<t>_id_seq and point the tenant column default at it
create_tenant_sequences(D, client_name, t) ==
    LET s == SqlIdent(client_name)
    IN  IF D.tbl[<<PublicSchema, t>>].dflt = NoDefault THEN D
        ELSE LET D1 == IF SeqOf(s, t) \in DOMAIN D.seq THEN D
                       ELSE [D EXCEPT !.seq = @ @@ (SeqOf(s, t) :> 0)]
             IN  [D1 EXCEPT !.tbl[<<s, t>>].dflt = SeqOf(s, t)]

\* update_tenant_sequences: the catalog lookup takes client_name as a bound
\* parameter; for the nextval column found, setval(<default's sequence>, max)
update_tenant_sequences(D, client_name, t) ==
    IF ~TableExists(D, client_name, t) THEN D
    ELSE LET q == D.tbl[<<client_name, t>>].dflt
         IN  IF q = NoDefault THEN D
             ELSE [D EXCEPT !.seq[q] = MaxId(Rows(D, client_name, t))]

\* ------------------------------------------------------------------------
\* Provisioning functions.  A session value is
\*   [com, cur, abt, sql]: the committed database, the database as the
\*   session's open transaction sees it, whether a failed statement has
\*   aborted that transaction (every later statement then fails until the
\*   transaction ends, and COMMIT discards it), and the kinds of statement
\*   sent so far.
\* A call value is [db, result, sql].
\* ------------------------------------------------------------------------
NewSession(D, sql) == [com |-> D, cur |-> D, abt |-> FALSE, sql |-> sql]

\* what is left of a transaction that is rolled back: sequence values are
\* not transactional (setval/nextval survive), everything else is undone
RolledBack(S) ==
    [S.com EXCEPT !.seq = [q \in DOMAIN S.com.seq |->
                              IF q \in DOMAIN S.cur.seq THEN S.cur.seq[q]
                              ELSE S.com.seq[q]]]

\* session.commit(): COMMIT of an aborted transaction is a rollback
SessionCommit(S) ==
    IF S.abt THEN [S EXCEPT !.com = RolledBack(S), !.cur = RolledBack(S), !.abt = FALSE]
    ELSE [S EXCEPT !.com = S.cur]

\* the session after create_initial_<t>() has committed `seeded` in a
\* session of its own: the new rows of public.<t> are committed and visible
TemplateSeeded(S, seeded, t) ==
    [S EXCEPT !.com = [S.com EXCEPT
                          !.tbl[<<PublicSchema, t>>] = seeded.tbl[<<PublicSchema, t>>],
                          !.seq[<<PublicSchema, t>>] = seeded.seq[<<PublicSchema, t>>]],
              !.cur = seeded,
              !.sql = @ \cup {"SELECT", "DML"}]

\* the pass that only counts public.<t> and never calls create_initial_<t>()
SeedTemplateNever(S, t) == [S EXCEPT !.sql = @ \cup {"SELECT"}]

\* the lazy template seeding run on every pass, whatever public_count is
SeedTemplateAlways(S, t) ==
    TemplateSeeded(S, InsertDefaultRows(S.cur, PublicSchema, t,
                                        InitialRowCount(t), "seed"), t)

\* SELECT COUNT(*) FROM public.<t>; when it is 0, create_initial_<t>() fills
\* public.<t>
SeedTemplateIfEmpty(S, t) ==
    IF Rows(S.cur, PublicSchema, t) = {}
    THEN TemplateSeeded(S, create_initial(S.cur, t), t)
    ELSE [S EXCEPT !.sql = @ \cup {"SELECT"}]

\* tenant_table_exists (bound parameter); when false, CREATE TABLE IF NOT
\* EXISTS <client>.<t> (LIKE public.<t> INCLUDING ALL) and session.commit()
EnsureTenantTable(S, client_name, t) ==
    IF TableExists(S.cur, client_name, t) THEN S
    ELSE IF ~SqlWellFormed(client_name) \/ SqlIdent(client_name) \notin S.cur.schemas
    THEN [S EXCEPT !.abt = TRUE, !.sql = @ \cup {"DDL"}]
    ELSE SessionCommit(
           [S EXCEPT !.cur = CreateTableLikeAll(S.cur, SqlIdent(client_name), t),
                     !.sql = @ \cup {"DDL"}])

\* the copy without its `if tenant_count > 0: continue`: the INSERT ...
\* SELECT * runs on a non-empty tenant table too and fails on the primary key
\* when an id is already there
CopyIntoTenantNoEmptyCheck(S, client_name, t) ==
    IF S.abt \/ Rows(S.cur, PublicSchema, t) = {} THEN S
    ELSE IF Ids(Rows(S.cur, SqlIdent(client_name), t))
               \cap Ids(Rows(S.cur, PublicSchema, t)) # {}
    THEN [S EXCEPT !.abt = TRUE, !.sql = @ \cup {"DML"}]
    ELSE [S EXCEPT !.cur = update_tenant_sequences(
                               [S.cur EXCEPT !.tbl[<<SqlIdent(client_name), t>>].rows =
                                   @ \cup Rows(S.cur, PublicSchema, t)],
                               client_name, t),
                   !.sql = @ \cup {"DML"}]

\* tenant_count; when it is 0 and public_count > 0, INSERT INTO
\* <client>.<t> SELECT * FROM public.<t> and update_tenant_sequences
CopyIntoTenant(S, client_name, t) ==
    IF S.abt THEN S
    ELSE IF Rows(S.cur, SqlIdent(client_name), t) # {} THEN S
    ELSE IF Rows(S.cur, PublicSchema, t) = {} THEN S
    ELSE [S EXCEPT !.cur = update_tenant_sequences(
                               [S.cur EXCEPT !.tbl[<<SqlIdent(client_name), t>>].rows =
                                   Rows(S.cur, PublicSchema, t)],
                               client_name, t),
                   !.sql = @ \cup {"DML"}]

\* one iteration of the PostgreSQL seed-copy loop of create_tenant_initial_data;
\* once a statement has failed, every later one fails and is skipped by the
\* `except ...: continue`
SeedCopyOne(S, client_name, t) ==
    IF S.abt THEN S
    ELSE CopyIntoTenant(
           EnsureTenantTable(SeedTemplateIfEmpty(S, t), client_name, t),
           client_name, t)

\* the seed-copy loop leaving after the first table it had to fill
RECURSIVE SeedCopyLoopStopsAfterCopy(_, _, _)
SeedCopyLoopStopsAfterCopy(S, client_name, ts) ==
    IF ts = <<>> THEN S
    ELSE IF RowsOrNone(S.cur, SqlIdent(client_name), Head(ts)) = {}
    THEN SeedCopyOne(S, client_name, Head(ts))
    ELSE SeedCopyLoopStopsAfterCopy(S, client_name, Tail(ts))

RECURSIVE SeedCopyLoop(_, _, _)
SeedCopyLoop(S, client_name, ts) ==
    IF ts = <<>> THEN S
    ELSE SeedCopyLoop(SeedCopyOne(S, client_name, Head(ts)), client_name, Tail(ts))

\* what a provisioning call leaves: the committed database of its session
SeedResult(S) == [db |-> S.com, result |-> "ok", sql |-> S.sql]

\* create_tenant_initial_data(client_name)
create_tenant_initial_data(D, client_name, sqlite) ==
    IF sqlite THEN [db |-> D, result |-> "ok", sql |-> {}]
    ELSE IF ~validate_schema_name(client_name, sqlite)
    THEN [db |-> D, result |-> "ValueError", sql |-> {}]
    ELSE SeedResult(SessionCommit(
             SeedCopyLoop(NewSession(D, {}), client_name, tables_with_initial_data)))

\* the statements of the caller sent before those of the call r it ends with
PrefixSql(r, sql) == [r EXCEPT !.sql = sql \cup @]

\* the table-creation loop of create_tenant_schema (step 3)
RECURSIVE CreateTablesLoop(_, _, _)
CreateTablesLoop(D, client_name, ts) ==
    IF ts = <<>> THEN D
    ELSE CreateTablesLoop(
           create_tenant_sequences(
               CreateTableLikeNoDefaults(D, SqlIdent(client_name), Head(ts)),
               client_name, Head(ts)),
           client_name, Tail(ts))

\* the loop over the missing tables leaving after the first one
CreateMissingLoopFirstOnly(D, s, ts) ==
    IF ts = <<>> THEN D ELSE CreateTableLikeAll(D, s, Head(ts))

\* the loop "Crear tablas faltantes" of migrate_existing_tenant_schema
RECURSIVE CreateMissingLoop(_, _, _)
CreateMissingLoop(D, s, ts) ==
    IF ts = <<>> THEN D
    ELSE CreateMissingLoop(CreateTableLikeAll(D, s, Head(ts)), s, Tail(ts))

\* create_tenant_schema after its existence check found no schema
CreateBody(D, client_name, sqlite) ==
    IF ~SqlWellFormed(client_name)
    THEN [db |-> D, result |-> "error", sql |-> {"SELECT", "DDL"}]
    ELSE IF get_all_tables_except_user(D) = <<>>
    THEN [db |-> D, result |-> "ok", sql |-> {"SELECT", "DDL"}]
    ELSE PrefixSql(
           create_tenant_initial_data(
               CreateTablesLoop([D EXCEPT !.schemas = @ \cup {SqlIdent(client_name)}],
                                client_name, get_all_tables_except_user(D)),
               client_name, sqlite),
           {"SELECT", "DDL"})

\* missing_tables of migrate_existing_tenant_schema
MissingTables(D, client_name) ==
    SelectSeq(get_all_tables_except_user(D),
              LAMBDA t : t \notin TablesOf(D, client_name))

\* the tenant's seed tables emptied
SeedTablesEmptied(D, client_name) ==
    [D EXCEPT !.tbl = [k \in DOMAIN D.tbl |->
        IF k[1] = client_name /\ k[2] \in SeedTables
        THEN [D.tbl[k] EXCEPT !.rows = {}]
        ELSE D.tbl[k]]]

\* the reconciliation emptying the tenant's seed tables before the seed-copy
\* step, so that every seed table is copied again from the template
MigrateBodyRecopiesAll(D, client_name, sqlite) ==
    PrefixSql(
      create_tenant_initial_data(
          SeedTablesEmptied(
              CreateMissingLoop(D, client_name, MissingTables(D, client_name)),
              client_name),
          client_name, sqlite),
      {"SELECT", "DDL", "DML"})

\* migrate_existing_tenant_schema after its existence check found the schema
MigrateBody(D, client_name, sqlite) ==
    PrefixSql(
      create_tenant_initial_data(
          CreateMissingLoop(D, client_name, MissingTables(D, client_name)),
          client_name, sqlite),
      IF MissingTables(D, client_name) = <<>> THEN {"SELECT"} ELSE {"SELECT", "DDL"})

\* create_tenant_schema without its early return on SQLite
create_tenant_schema_without_sqlite_return(D, client_name, sqlite) ==
    IF ~validate_schema_name(client_name, sqlite)
    THEN [db |-> D, result |-> "ValueError", sql |-> {}]
    ELSE IF schema_exists(D, client_name)
    THEN MigrateBody(D, client_name, FALSE)
    ELSE CreateBody(D, client_name, FALSE)

\* create_tenant_schema(client_name)
create_tenant_schema(D, client_name, sqlite) ==
    IF sqlite THEN [db |-> D, result |-> "ok", sql |-> {}]
    ELSE IF ~validate_schema_name(client_name, sqlite)
    THEN [db |-> D, result |-> "ValueError", sql |-> {}]
    ELSE IF schema_exists(D, client_name)
    THEN MigrateBody(D, client_name, sqlite)
    ELSE CreateBody(D, client_name, sqlite)

\* migrate_existing_tenant_schema(client_name)
migrate_existing_tenant_schema(D, client_name, sqlite) ==
    IF sqlite THEN create_tenant_initial_data(D, client_name, sqlite)
    ELSE IF ~validate_schema_name(client_name, sqlite)
    THEN [db |-> D, result |-> "ValueError", sql |-> {}]
    ELSE IF ~schema_exists(D, client_name)
    THEN CreateBody(D, client_name, sqlite)
    ELSE MigrateBody(D, client_name, sqlite)

\* the True / False setup_new_tenant returns for the call r it made, after
\* its own SELECT EXISTS
SetupResult(r) ==
    [db |-> r.db,
     result |-> IF r.result = "ok" THEN "True" ELSE "False",
     sql |-> {"SELECT"} \cup r.sql]

\* setup_new_tenant(client_name): True / False
setup_new_tenant(D, client_name, sqlite) ==
    IF IsBlank(client_name) THEN [db |-> D, result |-> "False", sql |-> {}]
    ELSE IF sqlite THEN [db |-> D, result |-> "True", sql |-> {}]
    ELSE IF schema_exists(D, Lower(Strip(client_name)))
    THEN SetupResult(migrate_existing_tenant_schema(D, Lower(Strip(client_name)), sqlite))
    ELSE SetupResult(create_tenant_schema(D, Lower(Strip(client_name)), sqlite))

\* the per-client loop without its try / except: the first client whose
\* reconciliation raises ends the loop
RECURSIVE MigrateAllLoopStopsOnError(_, _, _)
MigrateAllLoopStopsOnError(D, cs, sqlite) ==
    IF cs = {} THEN D
    ELSE IF migrate_existing_tenant_schema(D, MinName(cs), sqlite).result # "ok" THEN D
    ELSE MigrateAllLoopStopsOnError(
             migrate_existing_tenant_schema(D, MinName(cs), sqlite).db,
             cs \ {MinName(cs)}, sqlite)

\* the per-client loop of migrate_all_tenant_schemas: an exception of one
\* client is logged and the loop continues
RECURSIVE MigrateAllLoop(_, _, _)
MigrateAllLoop(D, cs, sqlite) ==
    IF cs = {} THEN D
    ELSE LET c == MinName(cs)
         IN  MigrateAllLoop(migrate_existing_tenant_schema(D, c, sqlite).db,
                            cs \ {c}, sqlite)

\* migrate_all_tenant_schemas(): clients are the distinct non-empty client
\* values of public.user2
migrate_all_tenant_schemas(D, clients, sqlite) ==
    IF sqlite THEN D
    ELSE MigrateAllLoop(D, {c \in clients : c # <<>>}, sqlite)

\* create_public_initial_data(): the four create_initial_<entity> calls
create_public_initial_data(D) ==
    create_initial(create_initial(create_initial(create_initial(
        D, "header"), "contact"), "company"), "carrousel")

\* one pass of the table-creation loop of create_tenant_schema when the
\* CREATE TABLE / CREATE SEQUENCE of table `bad` is refused by the database:
\* the exception is logged and the loop continues, in the same transaction,
\* which the failed statement has aborted
CreateTableStep(S, client_name, t, bad) ==
    IF S.abt THEN [S EXCEPT !.sql = @ \cup {"DDL"}]
    ELSE IF t = bad THEN [S EXCEPT !.abt = TRUE, !.sql = @ \cup {"DDL"}]
    ELSE [S EXCEPT !.cur = create_tenant_sequences(
                               CreateTableLikeNoDefaults(S.cur, SqlIdent(client_name), t),
                               client_name, t),
                   !.sql = @ \cup {"DDL"}]

RECURSIVE CreateTablesLoopInSession(_, _, _, _)
CreateTablesLoopInSession(S, client_name, ts, bad) ==
    IF ts = <<>> THEN S
    ELSE CreateTablesLoopInSession(CreateTableStep(S, client_name, Head(ts), bad),
                                   client_name, Tail(ts), bad)

\* create_tenant_schema for a well-formed name whose schema is absent, with
\* the creation of table `bad` failing: CREATE SCHEMA, the loop, commit, then
\* create_tenant_initial_data
CreateBodyTableFails(D, client_name, sqlite, bad) ==
    PrefixSql(
      create_tenant_initial_data(
          SessionCommit(
              CreateTablesLoopInSession(
                  [NewSession(D, {}) EXCEPT
                      !.cur.schemas = @ \cup {SqlIdent(client_name)}],
                  client_name, get_all_tables_except_user(D), bad)).com,
          client_name, sqlite),
      {"SELECT", "DDL"})

\* ------------------------------------------------------------------------
\* Bounds and inputs
\* ------------------------------------------------------------------------
\* provisioning / reconciliation calls and restarts per behaviour, after the
\* first start
MaxCalls == 2

\* row inserts, row deletes and table drops per behaviour
MaxEdits == 2

\* tenant sessions opened per behaviour
MaxOpens == 2

\* provisioning calls per behaviour of the naming specification
\* clock readings 0..MaxNow
MaxNow == 2

MaxNamingCalls == 2

\* chat sessions one tenant creates per behaviour
MaxChatSessions == 2

\* chatbot service calls per behaviour
MaxChatCalls == 4

\* calls one worker makes per behaviour: its start, then requests or restarts
MaxRaceCalls == 2

\* hand-overs between create_tenant_schema and migrate_existing_tenant_schema
\* followed within one call
MaxHandovers == 3

\* client="shirkasoft" of the admin user
AdminClient == <<"s","h","i","r","k","a","s","o","f","t">>

NameB == <<"b">>

NameUpper == <<"B">>

NameNewline == <<"b", "\n">>

NameInject == <<"b", ";">>

NameQuote == <<"'", " ", "O", "R">>

NameEmpty == <<>>

NameBlank == <<" ">>

NameLong == [i \in 1..(MaxSchemaNameLen + 1) |-> "a"]

\* the client strings registrations and provisioning calls carry
ClientNames == {AdminClient, NameB, NameUpper, NameNewline, NameInject,
                NameQuote, NameEmpty, NameBlank, NameLong}

\* the client strings of the provisioning behaviours
TenantNames == {NameB, NameUpper}

\* the client strings of the requests that open a tenant session
SessionNames == {AdminClient, NameB, NameNewline, NameInject, NameBlank}

\* the entity tables the row edits touch
EditTables == {"header"}

\* the tenant tables that get dropped by hand
DropTables == {"header", "news"}

\* schemas whose rows and tables are edited between provisioning calls: the
\* template and one tenant
EditSchemas == {PublicSchema, NameB}

\* template tables whose creation in a tenant schema may be refused
FaultTables == {"carrousel", "header", "news"}

\* connections of the engine's pool
Conns == {1, 2}

\* requests in flight at once
Reqs == {1, 2}

\* ------------------------------------------------------------------------
\* State
\* ------------------------------------------------------------------------
VARIABLES
    is_sqlite,  \* settings.USE_SQLITE
    started,    \* init_database has completed: the server takes requests
    db,         \* the committed database: [schemas, tbl, seq]
    users,      \* client values of the rows of public.user2
    last,       \* the last operation [op, arg, result, sql] and the one
                \* before it [pop, parg]
    prev,       \* the database before the last operation
    calls,      \* provisioning calls made
    edits,      \* row/table edits made
    conn,       \* pooled connections: session-level search_path, holder
    req,        \* requests and the tenant session each one holds
    opens,      \* tenant sessions opened
    now,        \* the clock jwt.decode reads
    auth,       \* the last verify_token call: token, time, outcome
    chat,       \* chat sessions and today's usage record of one tenant
    proc        \* server workers: the call each one is in, and where

vars == <<is_sqlite, started, db, users, last, prev, calls, edits, conn, req,
          opens, now, auth, chat, proc>>

\* database after create_sqlmodel_tables on an empty server: public with every
\* model table, each id column fed by its own sequence
InitialDb ==
    [schemas |-> {PublicSchema},
     tbl     |-> [k \in {<<PublicSchema, t>> : t \in AllTables} |->
                     [rows |-> {}, dflt |-> SeqOf(PublicSchema, k[2])]],
     seq     |-> [k \in {<<PublicSchema, t>> : t \in AllTables} |-> 0]]

NoOp == [op |-> "none", arg |-> <<>>, result |-> "ok", sql |-> {},
         pop |-> "none", parg |-> <<>>]

Did(op, arg, result, sql) ==
    [op |-> op, arg |-> arg, result |-> result, sql |-> sql,
     pop |-> last.op, parg |-> last.arg]

ProvisioningUnchanged ==
    UNCHANGED <<is_sqlite, conn, req, opens, now, auth, chat, proc>>

\* a call of one provisioning function, from its [db, result, sql]
Called(op, arg, r) ==
    /\ started
    /\ calls < MaxCalls
    /\ calls' = calls + 1
    /\ db' = r.db
    /\ prev' = db
    /\ last' = Did(op, arg, r.result, r.sql)
    /\ UNCHANGED <<edits, started>>
    /\ ProvisioningUnchanged

\* POST /user/: create_user provisions the client (any exception is only
\* logged) and stores the user row with the client as given
create_user(client) ==
    /\ Called("create_user", client, create_tenant_schema(db, client, is_sqlite))
    /\ users' = users \cup {client}

CallMigrateExistingTenantSchema(client) ==
    /\ Called("migrate_existing_tenant_schema", client,
              migrate_existing_tenant_schema(db, client, is_sqlite))
    /\ UNCHANGED users

CallCreateTenantInitialData(client) ==
    /\ Called("create_tenant_initial_data", client,
              create_tenant_initial_data(db, client, is_sqlite))
    /\ UNCHANGED users

CallSetupNewTenant(client) ==
    /\ Called("setup_new_tenant", client, setup_new_tenant(db, client, is_sqlite))
    /\ UNCHANGED users

\* POST /user/ for a client with no schema, while the database refuses the
\* creation of table `bad` in the new schema
create_user_table_fails(client, bad) ==
    /\ ~is_sqlite
    /\ validate_schema_name(client, is_sqlite)
    /\ SqlWellFormed(client)
    /\ ~schema_exists(db, client)
    /\ bad \in Range(get_all_tables_except_user(db))
    /\ Called("create_user_table_fails", client,
              CreateBodyTableFails(db, client, is_sqlite, bad))
    /\ users' = users \cup {client}

\* create_user for a new client when get_all_tables_except_user gives the
\* empty list (its query raised, or public holds no table to copy):
\* create_tenant_schema has sent CREATE SCHEMA, logs a warning and returns
\* inside the Session block without a commit, so closing the Session rolls
\* the transaction back
create_user_no_tables(client) ==
    /\ ~is_sqlite
    /\ validate_schema_name(client, is_sqlite)
    /\ SqlWellFormed(client)
    /\ ~schema_exists(db, client)
    /\ Called("create_user_no_tables", client,
              [db     |-> RolledBack([NewSession(db, {}) EXCEPT
                                         !.cur.schemas = @ \cup {SqlIdent(client)}]),
               result |-> "ok",
               sql    |-> {"SELECT", "DDL"}])
    /\ users' = users \cup {client}

\* create_admin_user(): when the admin row is missing it is inserted with
\* client 'shirkasoft' and, on PostgreSQL, that tenant is provisioned
create_admin_user(D, admin_exists, sqlite) ==
    IF admin_exists \/ sqlite THEN D
    ELSE create_tenant_schema(D, AdminClient, sqlite).db

\* init_database() in the lifespan of the server: tables, admin user,
\* template seed rows, then reconcile_all.  The first start comes before any
\* request; later starts are restarts.
init_database ==
    /\ started => calls < MaxCalls
    /\ calls' = IF started THEN calls + 1 ELSE calls
    /\ started' = TRUE
    /\ users' = users \cup {AdminClient}
    /\ db' = migrate_all_tenant_schemas(
                 create_public_initial_data(
                     create_admin_user(db, AdminClient \in users, is_sqlite)),
                 users', is_sqlite)
    /\ prev' = db
    /\ last' = Did("init_database", <<>>, "ok", {"SELECT", "DDL", "DML"})
    /\ UNCHANGED edits
    /\ ProvisioningUnchanged

\* create_public_initial_data when the INSERT of entity `bad` is refused:
\* the entities before it are seeded, each in its own committed session;
\* create_initial_<bad> logs and re-raises, and so does the caller
RECURSIVE CreatePublicInitialDataUntil(_, _, _)
CreatePublicInitialDataUntil(D, ts, bad) ==
    IF ts = <<>> \/ Head(ts) = bad THEN D
    ELSE CreatePublicInitialDataUntil(create_initial(D, Head(ts)), Tail(ts), bad)

\* init_database() when the database refuses the INSERT of the starter rows
\* of one entity: the exception leaves create_public_initial_data and
\* init_database, migrate_all_tenant_schemas is not reached and the server
\* does not come up
init_database_seed_fails(bad) ==
    /\ started => calls < MaxCalls
    /\ calls' = IF started THEN calls + 1 ELSE calls
    /\ Rows(create_admin_user(db, AdminClient \in users, is_sqlite),
            PublicSchema, bad) = {}
    /\ started' = FALSE
    /\ users' = users \cup {AdminClient}
    /\ db' = CreatePublicInitialDataUntil(
                 create_admin_user(db, AdminClient \in users, is_sqlite),
                 tables_with_initial_data, bad)
    /\ prev' = db
    /\ last' = Did("init_database_seed_fails", <<bad>>, "raised", {"SELECT", "DML"})
    /\ UNCHANGED edits
    /\ ProvisioningUnchanged

Edited(op, s, D) ==
    /\ started
    /\ ~is_sqlite
    /\ edits < MaxEdits
    /\ edits' = edits + 1
    /\ db' = D
    /\ prev' = db
    /\ last' = Did(op, s, "ok", {"DML"})
    /\ UNCHANGED <<calls, users, started>>
    /\ ProvisioningUnchanged

\* an entity create handler (create_header, create_company, ...) run against
\* schema s: INSERT with the id taken from the column default.  nextval is
\* consumed even when the INSERT then fails on the primary key.
InsertRow(s, t) ==
    /\ TableExists(db, s, t)
    /\ db.tbl[<<s, t>>].dflt # NoDefault
    /\ LET q  == db.tbl[<<s, t>>].dflt
           id == db.seq[q] + 1
       IN  Edited("insert", s,
                  IF InsertDefaultOk(db, s, t, 1)
                  THEN InsertDefaultRows(db, s, t, 1, "user")
                  ELSE [db EXCEPT !.seq[q] = id])

\* an entity delete handler (delete_header, delete_company, ...)
DeleteRow(s, t, r) ==
    /\ TableExists(db, s, t)
    /\ r \in Rows(db, s, t)
    /\ Edited("delete", s, [db EXCEPT !.tbl[<<s, t>>].rows = @ \ {r}])

\* a tenant table dropped by hand (schema drift)
DropTenantTable(s, t) ==
    /\ s # PublicSchema
    /\ TableExists(db, s, t)
    /\ Edited("drop", s,
              [db EXCEPT !.tbl = [k \in (DOMAIN db.tbl) \ {<<s, t>>} |-> db.tbl[k]]])

\* ------------------------------------------------------------------------
\* Tenant sessions.  A search path "<tenant>, public" is represented by the
\* schema name <tenant>, the default path by PublicSchema.
\*   conn[c] = [path, holder]: the connection's session-level search_path
\*             (what a new transaction on it starts with) and the request
\*             whose Session has it checked out (0: in the pool)
\*   req[r]  = [state, opener, client, status, sql, conn, txpath, abt, seen]
\* ------------------------------------------------------------------------
IdleReq ==
    [state |-> "idle", opener |-> "none", client |-> <<>>, status |-> "none",
     sql |-> {}, conn |-> 0, txpath |-> PublicSchema, abt |-> FALSE, seen |-> {}]

SessionUnchanged ==
    UNCHANGED <<is_sqlite, started, db, users, last, prev, calls, edits, now, auth,
                chat, proc>>

\* the dependency ends without yielding: the Session is closed, which rolls
\* its transaction back (a SET made in it is undone) and returns the
\* connection to the pool
Refused(r, opener, client, status, sql) ==
    /\ req' = [req EXCEPT ![r] = [IdleReq EXCEPT !.state = "closed",
                                                  !.opener = opener,
                                                  !.client = client,
                                                  !.status = status,
                                                  !.sql = sql]]
    /\ UNCHANGED conn

\* the dependency yields the Session to the handler, its transaction open on
\* connection c with the tenant search path set in that transaction
Yielded(r, opener, client, c, txpath, sql) ==
    /\ req' = [req EXCEPT ![r] = [IdleReq EXCEPT !.state = "held",
                                                  !.opener = opener,
                                                  !.client = client,
                                                  !.status = "ok",
                                                  !.sql = sql,
                                                  !.conn = c,
                                                  !.txpath = txpath]]
    /\ conn' = IF c = 0 THEN conn ELSE [conn EXCEPT ![c].holder = r]

CanOpen(r, c) ==
    /\ started
    /\ opens < MaxOpens
    /\ req[r].state \in {"idle", "closed"}
    /\ conn[c].holder = 0
    /\ opens' = opens + 1
    /\ SessionUnchanged

\* get_tenant_session up to its yield
get_tenant_session(r, client_name, c) ==
    /\ CanOpen(r, c)
    /\ IF IsBlank(client_name)
       THEN Refused(r, "get_tenant_session", client_name, "400", {})
       ELSE IF is_sqlite \/ ~SqlWellFormed(client_name)
       THEN \* SET search_path is rejected by the database: except Exception
            Refused(r, "get_tenant_session", client_name, "500", {"SET"})
       ELSE IF ~schema_exists(db, client_name)
       THEN Refused(r, "get_tenant_session", client_name, "404", {"SET", "SELECT"})
       ELSE Yielded(r, "get_tenant_session", client_name, c,
                    SqlIdent(client_name), {"SET", "SELECT"})

\* get_tenant_db up to its yield
get_tenant_db(r, client_name, c) ==
    /\ CanOpen(r, c)
    /\ IF ~validate_schema_name(client_name, is_sqlite)
       THEN Refused(r, "get_tenant_db", client_name, "ValueError", {})
       ELSE IF is_sqlite
       THEN Yielded(r, "get_tenant_db", client_name, 0, PublicSchema, {})
       ELSE IF ~SqlWellFormed(client_name)
       THEN Refused(r, "get_tenant_db", client_name, "error", {"SET"})
       ELSE Yielded(r, "get_tenant_db", client_name, c,
                    SqlIdent(client_name), {"SET"})

\* the handler runs a statement on its Session (db.exec, db.get, the SELECT
\* of db.merge/db.refresh): with no transaction open the Session begins one
\* on a connection checked out of the pool, whose session-level search path
\* is then the one in effect
HandlerExec(r, c) ==
    /\ req[r].state = "held"
    /\ ~req[r].abt
    /\ IF req[r].conn # 0
       THEN /\ c = req[r].conn
            /\ req' = [req EXCEPT ![r].seen = @ \cup {req[r].txpath}]
            /\ UNCHANGED conn
       ELSE /\ conn[c].holder = 0
            /\ req' = [req EXCEPT ![r].conn = c,
                                  ![r].txpath = conn[c].path,
                                  ![r].seen = @ \cup {conn[c].path}]
            /\ conn' = [conn EXCEPT ![c].holder = r]
    /\ UNCHANGED opens
    /\ SessionUnchanged

\* a statement of the handler fails in the database: the transaction is
\* aborted until it is rolled back
HandlerDbError(r) ==
    /\ req[r].state = "held"
    /\ req[r].conn # 0
    /\ ~req[r].abt
    /\ req' = [req EXCEPT ![r].abt = TRUE]
    /\ UNCHANGED <<conn, opens>>
    /\ SessionUnchanged

\* db.commit(): a SET made in the transaction becomes the connection's
\* session-level value; the connection goes back to the pool
HandlerCommit(r) ==
    /\ req[r].state = "held"
    /\ req[r].conn # 0
    /\ conn' = [conn EXCEPT ![req[r].conn] =
                   [path |-> IF req[r].abt \/ is_sqlite THEN @.path ELSE req[r].txpath,
                    holder |-> 0]]
    /\ req' = [req EXCEPT ![r].conn = 0, ![r].abt = FALSE]
    /\ UNCHANGED opens
    /\ SessionUnchanged

\* db.rollback(): a SET made in the transaction is undone
HandlerRollback(r) ==
    /\ req[r].state = "held"
    /\ req[r].conn # 0
    /\ conn' = [conn EXCEPT ![req[r].conn].holder = 0]
    /\ req' = [req EXCEPT ![r].conn = 0, ![r].abt = FALSE]
    /\ UNCHANGED opens
    /\ SessionUnchanged

\* the finally block and the end of `with Session(engine)`, after the
\* handler returned or raised: SET search_path TO public is sent in the
\* Session's current transaction (a new one on a pooled connection c when
\* none is open; it fails when the transaction is aborted), then the Session
\* is closed, which rolls that transaction back
ReleaseSession(r, c) ==
    /\ req[r].state = "held"
    /\ IF req[r].conn # 0 THEN c = req[r].conn ELSE conn[c].holder = 0
    /\ conn' = [conn EXCEPT ![c].holder = 0]
    /\ req' = [req EXCEPT ![r].state = "closed",
                          ![r].conn = 0,
                          ![r].abt = FALSE,
                          ![r].txpath = PublicSchema,
                          ![r].sql = IF is_sqlite /\ req[r].opener = "get_tenant_db"
                                     THEN @ ELSE @ \cup {"SET"}]
    /\ UNCHANGED opens
    /\ SessionUnchanged

\* ------------------------------------------------------------------------
\* Bearer tokens.  A token is
\*   [sig, listed, source, client, email, exp]
\*   sig    : the key its signature verifies under ("SECRET_KEY") or not
\*            ("other": signed with another key, or no JWT at all)
\*   listed : the token string is an entry of FRONT_TOKENS
\*   source : the payload's source claim ("none": no such claim)
\*   client : the payload's client claim
\*   email  : the payload's email claim, named by the client of the user row
\*            that has this email ({}: no such claim)
\*   exp    : the payload's exp claim (NoExp: no such claim)
\* ------------------------------------------------------------------------
NoExp == 0 - 1

Tokens ==
    [sig : {"SECRET_KEY", "other"}, listed : BOOLEAN,
     source : {"website", "dashboard", "none"},
     client : {AdminClient, NameB},
     email : {{}, {AdminClient}, {NameB}},
     exp : {NoExp} \cup (0..MaxNow)]

NoAuth ==
    [op |-> "none", at |-> 0, status |-> "none", user |-> "none",
     client |-> <<>>, sql |-> {},
     token |-> [sig |-> "other", listed |-> FALSE, source |-> "none",
                client |-> AdminClient, email |-> {}, exp |-> NoExp]]

\* jwt.decode(token, SECRET_KEY, algorithms=[HS256]): TRUE when it returns the
\* payload, FALSE when it raises JWTError
JwtDecodes(token, verify_exp, t) ==
    /\ token.sig = "SECRET_KEY"
    /\ (verify_exp /\ token.exp # NoExp) => ~(token.exp < t)

\* decode_frontend_token + create_mock_user_from_token: MockUser from the
\* payload, or the default MockUser when the token does not decode
create_mock_user_from_token(token, t) ==
    [status |-> "200", user |-> "MockUser",
     client |-> IF JwtDecodes(token, FALSE, t) THEN token.client ELSE AdminClient,
     sql |-> {}]

Unauthorized(sql) == [status |-> "401", user |-> "none", client |-> <<>>, sql |-> sql]

\* verify_token(token, db)
verify_token(token, t, clients) ==
    IF JwtDecodes(token, FALSE, t)
    THEN IF token.source = "website"
         THEN [status |-> "200", user |-> "MockUser", client |-> token.client,
               sql |-> {}]
         ELSE IF ~JwtDecodes(token, TRUE, t) THEN Unauthorized({})
         ELSE IF token.email = {} THEN Unauthorized({})
         ELSE IF token.email \cap clients = {} THEN Unauthorized({"SELECT"})
         ELSE [status |-> "200", user |-> "ExtendedUser",
               client |-> CHOOSE c \in token.email : TRUE, sql |-> {"SELECT"}]
    ELSE IF token.listed THEN create_mock_user_from_token(token, t)
    ELSE Unauthorized({})

TokenUnchanged ==
    UNCHANGED <<is_sqlite, started, users, last, calls, edits, conn, req, opens,
                chat, proc>>

\* time passes
Tick ==
    /\ now < MaxNow
    /\ now' = now + 1
    /\ UNCHANGED <<db, prev, auth>>
    /\ TokenUnchanged

\* a request carrying the bearer token reaches an endpoint that depends on
\* verify_token; its only statement is the SELECT of the dashboard branch
CallVerifyToken(token) ==
    /\ started
    /\ auth' = [op |-> "verify_token", at |-> now, token |-> token]
               @@ verify_token(token, now, users)
    /\ prev' = db
    /\ UNCHANGED <<db, now>>
    /\ TokenUnchanged

\* ------------------------------------------------------------------------
\* Chatbot service: the sessions of one tenant and its usage record of today
\* ------------------------------------------------------------------------
ChatKeys == 1..MaxChatSessions

\* no ChatbotUsageStats row for (tenant, today)
NoStats ==
    [exists |-> FALSE, total_sessions |-> 0, active_sessions |-> 0,
     total_messages |-> 0, total_tokens |-> 0]

\* _update_usage_stats: nothing when analytics is off; a missing row is created
\* with max(increment, 0) in every counter, an existing row gets each
\* increment added
update_usage_stats(c, sessions_increment, active_sessions_increment, messages_increment, tokens_increment) ==
    LET max0(n) == IF n > 0 THEN n ELSE 0 IN
    IF ~c.analytics THEN c
    ELSE IF ~c.stats.exists
    THEN [c EXCEPT !.stats =
              [exists          |-> TRUE,
               total_sessions  |-> max0(sessions_increment),
               active_sessions |-> max0(active_sessions_increment),
               total_messages  |-> max0(messages_increment),
               total_tokens    |-> max0(tokens_increment)]]
    ELSE [c EXCEPT !.stats.total_sessions  = @ + sessions_increment,
                   !.stats.active_sessions = @ + active_sessions_increment,
                   !.stats.total_messages  = @ + messages_increment,
                   !.stats.total_tokens    = @ + tokens_increment]

\* create_session: a row with a fresh key, active and not expired, committed;
\* then the usage record counts one more session
create_session(c) ==
    LET k == CHOOSE k \in ChatKeys : c.sess[k] = "none" IN
    update_usage_stats([c EXCEPT !.sess[k] = "active"], 1, 0, 0, 0)

\* get_active_session finds a session that is active and not expired
\* (k = 0: no session key given)
get_active_session(c, k) == k \in ChatKeys /\ c.sess[k] = "active"

\* close_session: False for a session that is not found; else the session
\* is marked inactive and active_sessions gets the increment -1
close_session(c, k) ==
    IF ~get_active_session(c, k) THEN c
    ELSE update_usage_stats([c EXCEPT !.sess[k] = "inactive"], 0, 0 - 1, 0, 0)

\* cleanup_expired_sessions: every active session past its expiry is marked
\* inactive; the usage record is not touched
cleanup_expired_sessions(c) ==
    [c EXCEPT !.sess = [k \in ChatKeys |->
                            IF c.sess[k] = "expired" THEN "inactive" ELSE c.sess[k]]]

\* process_message: the session is looked up, or created when none is found
\* and create_new_session is set; a failed Groq call raises before the usage
\* record is touched; else one message and the reply's total_tokens are added
process_message(c, k, create_new_session, groq_ok, total_tokens) ==
    LET found == get_active_session(c, k) IN
    IF ~found /\ ~create_new_session THEN c
    ELSE IF ~groq_ok THEN (IF found THEN c ELSE create_session(c))
    ELSE update_usage_stats(IF found THEN c ELSE create_session(c),
                            0, 0, 1, total_tokens)

ChatUnchanged ==
    UNCHANGED <<is_sqlite, started, db, users, last, prev, calls, edits, conn, req,
                opens, now, auth, proc>>

ChatCalled(c) ==
    /\ chat.calls < MaxChatCalls
    /\ chat' = [c EXCEPT !.calls = @ + 1]
    /\ ChatUnchanged

CallCreateSession ==
    /\ \E k \in ChatKeys : chat.sess[k] = "none"
    /\ ChatCalled(create_session(chat))

CallCloseSession(k) == ChatCalled(close_session(chat, k))

CallCleanupExpiredSessions == ChatCalled(cleanup_expired_sessions(chat))

CallProcessMessage(k, create_new_session, groq_ok, total_tokens) ==
    /\ get_active_session(chat, k) \/ \E j \in ChatKeys : chat.sess[j] = "none"
    /\ ChatCalled(process_message(chat, k, create_new_session, groq_ok, total_tokens))

\* the clock passes the expires_at of an active session
ExpireSession(k) ==
    /\ chat.sess[k] = "active"
    /\ chat' = [chat EXCEPT !.sess[k] = "expired"]
    /\ ChatUnchanged

\* midnight: the usage record of the new day does not exist yet
NextDay ==
    /\ chat.stats.exists
    /\ chat' = [chat EXCEPT !.stats = NoStats]
    /\ ChatUnchanged

\* ------------------------------------------------------------------------
\* Workers running side by side.  Each worker is a process of its own with
\* its own sessions; `db` and `users` are what is committed.  A worker record:
\*   op     the call the worker is in or was last in
\*   n      the tenant of the provisioning or reconciliation under way
\*   pc     the statement the worker is at ("idle": between calls)
\*   i      index into tables_with_initial_data
\*   holds  its open transaction has created schema n, not yet committed
\*   ins    rows its open seed-copy transaction has inserted, per seed table
\*   abt    a statement of its seed-copy transaction has failed
\*   todo   clients migrate_all_tenant_schemas has still to visit
\*   after  what follows the return of the provisioning or reconciliation
\*   hand   hand-overs between provisioning and reconciliation in this call
\*   made   schemas this worker's CREATE SCHEMA statements created
\*   failed the last provisioning or reconciliation raised
\*   out    how the last call ended for its caller
\*   calls  calls started
\* ------------------------------------------------------------------------
Procs == {1, 2}

IdleProc ==
    [op |-> "none", n |-> <<>>, pc |-> "idle", i |-> 1, holds |-> FALSE,
     ins |-> [t \in SeedTables |-> {}], abt |-> FALSE, todo |-> {},
     after |-> "done", hand |-> 0, made |-> {}, failed |-> FALSE,
     out |-> "ok", calls |-> 0]

RaceUnchanged ==
    UNCHANGED <<is_sqlite, started, last, prev, calls, edits, conn, req, opens, now,
                auth, chat>>

\* the callers that wrap the provisioning or reconciliation in
\* try/except Exception: create_user, create_admin_user and the loop of
\* migrate_all_tenant_schemas
CallerCatchesExceptCreateUser(after) ==
    after \in {"create_public_initial_data", "migrate_all"}

CallerCatches(after) ==
    after \in {"insert_user", "create_public_initial_data", "migrate_all"}

\* the return of create_tenant_schema / migrate_existing_tenant_schema to
\* the caller of the outermost of them: the session is closed (open work is
\* rolled back), an exception is logged and swallowed by the caller, and the
\* caller goes on
Returned(pr, raised) ==
    LET r == [pr EXCEPT !.holds = FALSE, !.ins = IdleProc.ins, !.abt = FALSE,
                        !.failed = raised]
    IN  IF raised /\ ~CallerCatches(pr.after)
        THEN [r EXCEPT !.pc = "idle", !.out = "raised"]
        ELSE CASE pr.after = "insert_user" -> [r EXCEPT !.pc = "insert_user"]
               [] pr.after = "create_public_initial_data" ->
                      [r EXCEPT !.pc = "seed_public", !.i = 1]
               [] pr.after = "migrate_all" /\ pr.todo = {} -> [r EXCEPT !.pc = "idle"]
               [] pr.after = "migrate_all" /\ pr.todo # {} ->
                      [r EXCEPT !.pc = "mcheck", !.n = MinName(pr.todo),
                                !.todo = @ \ {MinName(pr.todo)}, !.hand = 0]
               [] OTHER -> [r EXCEPT !.pc = "idle"]

\* a worker's next call: init_database in its lifespan first, create_user
\* requests once it has started
RaceStart(p, op, n) ==
    /\ proc[p].pc = "idle"
    /\ proc[p].calls < MaxRaceCalls
    /\ op = "init_database" <=> proc[p].calls = 0
    /\ n = AdminClient <=> op = "init_database"
    /\ proc' = [proc EXCEPT ![p] =
                   [@ EXCEPT !.op = op, !.n = n, !.calls = @ + 1, !.out = "ok",
                             !.hand = 0, !.failed = FALSE, !.i = 1,
                             !.pc = IF op = "init_database"
                                    THEN "create_admin_user" ELSE "check",
                             !.after = IF op = "init_database"
                                       THEN "create_public_initial_data"
                                       ELSE "insert_user"]]
    /\ UNCHANGED <<db, users>>
    /\ RaceUnchanged

\* create_admin_user: the count of admin rows, then, when it was 0, the
\* INSERT and its commit followed on PostgreSQL by create_tenant_schema
create_admin_user_step(p) ==
    /\ proc[p].pc \in {"create_admin_user", "admin_insert"}
    /\ IF proc[p].pc = "create_admin_user"
       THEN /\ proc' = [proc EXCEPT ![p].pc = IF AdminClient \in users
                                              THEN "seed_public" ELSE "admin_insert"]
            /\ UNCHANGED users
       ELSE /\ users' = users \cup {AdminClient}
            /\ proc' = [proc EXCEPT ![p].pc = IF is_sqlite THEN "seed_public"
                                              ELSE "check"]
    /\ UNCHANGED db
    /\ RaceUnchanged

\* create_tenant_schema up to its existence check: hand-over to the
\* reconciliation when the schema is there
create_tenant_schema_check(p) ==
    LET pr == proc[p] IN
    /\ pr.pc = "check"
    /\ (~is_sqlite /\ schema_exists(db, pr.n)) => pr.hand < MaxHandovers
    /\ proc' = [proc EXCEPT ![p] =
                   IF is_sqlite THEN Returned(pr, FALSE)
                   ELSE IF ~validate_schema_name(pr.n, is_sqlite) THEN Returned(pr, TRUE)
                   ELSE IF schema_exists(db, pr.n)
                   THEN [pr EXCEPT !.pc = "mcheck", !.hand = @ + 1]
                   ELSE [pr EXCEPT !.pc = "cschema"]]
    /\ UNCHANGED <<db, users>>
    /\ RaceUnchanged

\* CREATE SCHEMA IF NOT EXISTS <n>: skipped when the schema is committed;
\* when another open transaction has created it the statement waits for
\* that transaction and then fails on the unique index of the catalog if it
\* committed; the failure is outside the per-table try, so
\* create_tenant_schema logs it and raises
create_schema_step(p) ==
    LET pr   == proc[p]
        s    == SqlIdent(pr.n)
        held == \E q \in Procs \ {p} : proc[q].holds /\ SqlIdent(proc[q].n) = s
    IN  /\ pr.pc \in {"cschema", "blocked"}
        /\ pr.pc = "blocked" => ~held
        /\ proc' = [proc EXCEPT ![p] =
                       IF s \in db.schemas
                       THEN IF pr.pc = "cschema" THEN [pr EXCEPT !.pc = "ctables"]
                            ELSE Returned(pr, TRUE)
                       ELSE IF held THEN [pr EXCEPT !.pc = "blocked"]
                       ELSE [pr EXCEPT !.pc = "ctables", !.holds = TRUE,
                                       !.made = @ \cup {s}]]
        /\ UNCHANGED <<db, users>>
        /\ RaceUnchanged

\* the table list, the table-creation loop and session.commit() of
\* create_tenant_schema; with an empty list it returns before the commit
create_tables_step(p) ==
    LET pr == proc[p]
        ts == get_all_tables_except_user(db)
    IN  /\ pr.pc = "ctables"
        /\ IF ts = <<>>
           THEN /\ proc' = [proc EXCEPT ![p] = Returned(pr, FALSE)]
                /\ UNCHANGED db
           ELSE /\ db' = CreateTablesLoop(
                             [db EXCEPT !.schemas = @ \cup {SqlIdent(pr.n)}], pr.n, ts)
                /\ proc' = [proc EXCEPT ![p] =
                               [pr EXCEPT !.holds = FALSE, !.pc = "count", !.i = 1]]
        /\ UNCHANGED users
        /\ RaceUnchanged

\* `if not schema_exists` of migrate_existing_tenant_schema
MigrateHandsOverAlways(D, n) == TRUE

MigrateHandsOver(D, n) == ~schema_exists(D, n)

\* migrate_existing_tenant_schema: hand-over to provisioning when the schema
\* is not there; else the missing tables are created and committed
migrate_existing_step(p) ==
    LET pr == proc[p] IN
    /\ pr.pc = "mcheck"
    /\ (~is_sqlite /\ MigrateHandsOver(db, pr.n)) => pr.hand < MaxHandovers
    /\ IF is_sqlite
       THEN /\ proc' = [proc EXCEPT ![p] = Returned(pr, FALSE)]
            /\ UNCHANGED db
       ELSE IF MigrateHandsOver(db, pr.n)
       THEN /\ proc' = [proc EXCEPT ![p] = [pr EXCEPT !.pc = "check", !.hand = @ + 1]]
            /\ UNCHANGED db
       ELSE /\ db' = CreateMissingLoop(db, pr.n, MissingTables(db, pr.n))
            /\ proc' = [proc EXCEPT ![p] = [pr EXCEPT !.pc = "count", !.i = 1]]
    /\ UNCHANGED users
    /\ RaceUnchanged

\* COMMIT of a seed-copy transaction: the rows it inserted become visible;
\* update_tenant_sequences has moved the sequences
RECURSIVE CommitCopied(_, _, _, _)
CommitCopied(D, client_name, ins, ts) ==
    IF ts = <<>> THEN D
    ELSE LET t == Head(ts)
             k == <<SqlIdent(client_name), t>>
         IN  CommitCopied(
               IF ins[t] = {} \/ k \notin DOMAIN D.tbl THEN D
               ELSE update_tenant_sequences(
                        [D EXCEPT !.tbl[k].rows = @ \cup ins[t]], client_name, t),
               client_name, ins, Tail(ts))

\* one pass of the seed-copy loop of create_tenant_initial_data up to its
\* INSERT: public_count (0: create_initial_<t>() is called), the tenant
\* table check with its CREATE TABLE and commit, tenant_count
seed_count_step(p) ==
    LET pr == proc[p]
        t  == tables_with_initial_data[pr.i]
        s  == SqlIdent(pr.n)
        tenant_count_is_0 == RowsOrNone(db, s, t) \cup pr.ins[t] = {}
        counted == IF tenant_count_is_0 /\ Rows(db, PublicSchema, t) # {}
                   THEN [pr EXCEPT !.pc = "tinsert"]
                   ELSE [pr EXCEPT !.pc = "count", !.i = @ + 1]
    IN  /\ pr.pc \in {"count", "tcount"}
        /\ pr.i <= Len(tables_with_initial_data)
        /\ IF pr.abt
           THEN /\ proc' = [proc EXCEPT ![p] = [pr EXCEPT !.pc = "count", !.i = @ + 1]]
                /\ UNCHANGED db
           ELSE IF pr.pc = "count" /\ Rows(db, PublicSchema, t) = {}
           THEN /\ proc' = [proc EXCEPT ![p].pc = "iinsert"]
                /\ UNCHANGED db
           ELSE IF pr.pc = "count" /\ ~TableExists(db, pr.n, t)
           THEN IF ~SqlWellFormed(pr.n) \/ s \notin db.schemas
                THEN /\ proc' = [proc EXCEPT ![p] =
                                    [pr EXCEPT !.abt = TRUE, !.pc = "count", !.i = @ + 1]]
                     /\ UNCHANGED db
                ELSE /\ db' = CommitCopied(CreateTableLikeAll(db, s, t), pr.n, pr.ins,
                                           tables_with_initial_data)
                     /\ proc' = [proc EXCEPT ![p] =
                                    [pr EXCEPT !.ins = IdleProc.ins, !.pc = "tcount"]]
           ELSE /\ proc' = [proc EXCEPT ![p] = counted]
                /\ UNCHANGED db
        /\ UNCHANGED users
        /\ RaceUnchanged

\* create_initial_<t>() past its own count: the INSERT of the starter rows
\* and its commit, called from the seed-copy loop ("iinsert") or from
\* create_public_initial_data ("seed_public_insert")
create_initial_insert_step(p) ==
    LET pr == proc[p]
        t  == tables_with_initial_data[pr.i]
    IN  /\ pr.pc \in {"iinsert", "seed_public_insert"}
        /\ db' = InsertDefaultRows(db, PublicSchema, t, InitialRowCount(t), "seed")
        /\ proc' = [proc EXCEPT ![p] =
                       IF pr.pc = "iinsert" THEN [pr EXCEPT !.pc = "count"]
                       ELSE [pr EXCEPT !.pc = "seed_public", !.i = @ + 1]]
        /\ UNCHANGED users
        /\ RaceUnchanged

\* create_public_initial_data: the count of each create_initial_<t>(); after
\* the last table init_database goes on to migrate_all_tenant_schemas, which
\* reads the client list
create_public_initial_data_step(p) ==
    LET pr == proc[p] IN
    /\ pr.pc = "seed_public"
    /\ proc' = [proc EXCEPT ![p] =
                   IF pr.i > Len(tables_with_initial_data)
                   THEN IF is_sqlite THEN [pr EXCEPT !.pc = "idle"]
                        ELSE Returned([pr EXCEPT !.after = "migrate_all",
                                                 !.todo = {c \in users : c # <<>>}],
                                      FALSE)
                   ELSE IF Rows(db, PublicSchema, tables_with_initial_data[pr.i]) = {}
                   THEN [pr EXCEPT !.pc = "seed_public_insert"]
                   ELSE [pr EXCEPT !.i = @ + 1]]
    /\ UNCHANGED <<db, users>>
    /\ RaceUnchanged

\* INSERT INTO <n>.<t> SELECT * FROM public.<t>: the ids come with the rows
\* and id is the primary key of the tenant table.  An id that is committed
\* in the tenant table fails the statement; an id inserted by another open
\* transaction makes the statement wait for that transaction.
seed_insert_step(p) ==
    LET pr   == proc[p]
        t    == tables_with_initial_data[pr.i]
        s    == SqlIdent(pr.n)
        rows == Rows(db, PublicSchema, t)
        dup  == Ids(rows) \cap Ids(RowsOrNone(db, s, t)) # {}
    IN  /\ pr.pc = "tinsert"
        /\ dup \/ \A q \in Procs \ {p} :
                     SqlIdent(proc[q].n) = s => Ids(proc[q].ins[t]) \cap Ids(rows) = {}
        /\ proc' = [proc EXCEPT ![p] =
                       IF dup THEN [pr EXCEPT !.abt = TRUE, !.pc = "count", !.i = @ + 1]
                       ELSE [pr EXCEPT !.ins[t] = rows, !.pc = "count", !.i = @ + 1]]
        /\ UNCHANGED <<db, users>>
        /\ RaceUnchanged

\* the final session.commit() of create_tenant_initial_data: COMMIT of an
\* aborted transaction is a rollback
seed_commit_step(p) ==
    LET pr == proc[p]
        D  == CommitCopied(db, pr.n, pr.ins, tables_with_initial_data)
    IN  /\ pr.pc = "count"
        /\ pr.i > Len(tables_with_initial_data)
        /\ db' = IF pr.abt THEN RolledBack([com |-> db, cur |-> D]) ELSE D
        /\ proc' = [proc EXCEPT ![p] = Returned(pr, FALSE)]
        /\ UNCHANGED users
        /\ RaceUnchanged

\* create_user after its provisioning attempt: the user row is added and
\* committed, the request answers with success
insert_user_step(p) ==
    /\ proc[p].pc = "insert_user"
    /\ users' = users \cup {proc[p].n}
    /\ proc' = [proc EXCEPT ![p].pc = "idle"]
    /\ UNCHANGED db
    /\ RaceUnchanged

Init ==
    /\ proc = [p \in Procs |-> IdleProc]
    /\ chat \in [sess : {[k \in ChatKeys |-> "none"]}, stats : {NoStats},
                 calls : {0}, analytics : BOOLEAN]
    /\ is_sqlite \in BOOLEAN
    /\ started = FALSE
    /\ db = InitialDb
    /\ users = {}
    /\ last = NoOp
    /\ prev = InitialDb
    /\ calls = 0
    /\ edits = 0
    /\ conn = [c \in Conns |-> [path |-> PublicSchema, holder |-> 0]]
    /\ req = [r \in Reqs |-> IdleReq]
    /\ opens = 0
    /\ now = 0
    /\ auth = NoAuth

\* provisioning, reconciliation, restarts and edits of tenant data
Next ==
    \/ init_database
    \/ \E c \in TenantNames : create_user(c)
    \/ \E c \in TenantNames : CallMigrateExistingTenantSchema(c)
    \/ \E c \in TenantNames : CallCreateTenantInitialData(c)
    \/ \E c \in TenantNames : CallSetupNewTenant(c)
    \/ \E s \in EditSchemas, t \in EditTables : InsertRow(s, t)
    \/ \E s \in EditSchemas, t \in EditTables :
          \E r \in RowsOrNone(db, s, t) : DeleteRow(s, t, r)
    \/ \E s \in EditSchemas, t \in DropTables : DropTenantTable(s, t)

Spec == Init /\ [][Next]_vars

\* tenant sessions of requests after the first start
SessionNext ==
    \/ ~started /\ init_database
    \/ \E r \in Reqs, c \in Conns, n \in SessionNames : get_tenant_session(r, n, c)
    \/ \E r \in Reqs, c \in Conns, n \in SessionNames : get_tenant_db(r, n, c)
    \/ \E r \in Reqs, c \in Conns : HandlerExec(r, c)
    \/ \E r \in Reqs : HandlerDbError(r)
    \/ \E r \in Reqs : HandlerCommit(r)
    \/ \E r \in Reqs : HandlerRollback(r)
    \/ \E r \in Reqs, c \in Conns : ReleaseSession(r, c)

SessionSpec == Init /\ [][SessionNext]_vars

\* every provisioning entry point on every client string
NamingNext ==
    \/ ~started /\ init_database
    \/ \E c \in ClientNames : calls < MaxNamingCalls /\ create_user(c)
    \/ \E c \in ClientNames : calls < MaxNamingCalls /\ CallMigrateExistingTenantSchema(c)
    \/ \E c \in ClientNames : calls < MaxNamingCalls /\ CallCreateTenantInitialData(c)
    \/ \E c \in ClientNames : calls < MaxNamingCalls /\ CallSetupNewTenant(c)

NamingSpec == Init /\ [][NamingNext]_vars

\* restarts, registrations (one that provisions, one whose client makes
\* reconciliation raise and sorts before every tenant, one that raises and
\* sorts between two tenants) and tenants losing tables
ReconcileAllNext ==
    \/ init_database
    \/ \E c \in {NameB, NameBlank, NameInject} : create_user(c)
    \/ \E s \in {AdminClient, NameB}, t \in DropTables : DropTenantTable(s, t)

ReconcileAllSpec == Init /\ [][ReconcileAllNext]_vars

\* registrations of clients in either letter case and the tenant sessions
\* their users then open
RegisteredSessionNext ==
    \/ ~started /\ init_database
    \/ \E c \in TenantNames : create_user(c)
    \/ \E r \in Reqs, c \in Conns, n \in TenantNames \cap users :
          get_tenant_session(r, n, c)
    \/ \E r \in Reqs, c \in Conns : ReleaseSession(r, c)

RegisteredSessionSpec == Init /\ [][RegisteredSessionNext]_vars

\* the chatbot service calls of one tenant, with sessions expiring and days
\* passing in between
ChatNext ==
    \/ CallCreateSession
    \/ \E k \in ChatKeys : CallCloseSession(k)
    \/ CallCleanupExpiredSessions
    \/ \E k \in {0} \cup ChatKeys, create \in BOOLEAN, ok \in BOOLEAN, tokens \in {0, 3} :
          CallProcessMessage(k, create, ok, tokens)
    \/ \E k \in ChatKeys : ExpireSession(k)
    \/ NextDay

ChatSpec == Init /\ [][ChatNext]_vars

\* the workers of one server, each starting with init_database and then
\* taking registrations of one new tenant, statement by statement and in any
\* interleaving
RaceNext ==
    \/ \E p \in Procs, n \in {AdminClient, NameB},
          op \in {"init_database", "create_user"} : RaceStart(p, op, n)
    \/ \E p \in Procs : create_admin_user_step(p)
    \/ \E p \in Procs : create_tenant_schema_check(p)
    \/ \E p \in Procs : create_schema_step(p)
    \/ \E p \in Procs : create_tables_step(p)
    \/ \E p \in Procs : migrate_existing_step(p)
    \/ \E p \in Procs : seed_count_step(p)
    \/ \E p \in Procs : create_initial_insert_step(p)
    \/ \E p \in Procs : create_public_initial_data_step(p)
    \/ \E p \in Procs : seed_insert_step(p)
    \/ \E p \in Procs : seed_commit_step(p)
    \/ \E p \in Procs : insert_user_step(p)

RaceSpec == Init /\ [][RaceNext]_vars

\* bearer tokens presented over time to a started server
TokenNext ==
    \/ ~started /\ init_database
    \/ Tick
    \/ \E token \in Tokens : CallVerifyToken(token)

TokenSpec == Init /\ [][TokenNext]_vars

\* provisioning with a table creation refused, among the other operations
FaultNext ==
    \/ Next
    \/ \E c \in TenantNames, bad \in FaultTables : create_user_table_fails(c, bad)
    \/ \E bad \in SeedTables : init_database_seed_fails(bad)
    \/ \E c \in TenantNames : create_user_no_tables(c)

FaultSpec == Init /\ [][FaultNext]_vars

\* ------------------------------------------------------------------------
\* Properties
\* ------------------------------------------------------------------------
\* the provisioning entry points that take a tenant id
TenantOps == {"create_user", "migrate_existing_tenant_schema",
              "create_tenant_initial_data", "setup_new_tenant"}

\* C1: on PostgreSQL, a request whose tenant id names no existing schema is
\* refused with 404 and never holds a session handle.
C1_TenantNotFound ==
    \A r \in Reqs :
        (/\ ~is_sqlite
         /\ req[r].state # "idle"
         /\ NameIsSafe(req[r].client)
         /\ ~schema_exists(db, req[r].client))
        => (req[r].state = "closed" /\ req[r].status = "404")

\* C2: on PostgreSQL, a request whose tenant id is not 1 to 50 characters of
\* [a-zA-Z0-9_] is rejected with no statement sent to the database.
C2_RejectedBeforeSql ==
    \A r \in Reqs :
        (/\ ~is_sqlite
         /\ req[r].state # "idle"
         /\ ~NameIsSafe(req[r].client))
        => (/\ req[r].state = "closed"
            /\ req[r].status \in {"400", "ValueError"}
            /\ req[r].sql = {})

\* C3: on PostgreSQL, every provisioning entry point called with a tenant id
\* that is not 1 to 50 characters of [a-zA-Z0-9_] rejects it and issues no SQL.
C3_InvalidNameNoSql ==
    (/\ ~is_sqlite
     /\ last.op \in TenantOps
     /\ ~NameIsSafe(last.arg))
    => (last.result \in {"ValueError", "False"} /\ last.sql = {})

\* C4: on PostgreSQL, every statement a handler runs on its tenant session
\* sees the search path (tenant, public), and every connection in the pool
\* has the default search path.
C4_SearchPathScoped ==
    ~is_sqlite =>
        /\ \A r \in Reqs :
              req[r].state = "held" => req[r].seen \subseteq {SqlIdent(req[r].client)}
        /\ \A c \in Conns : conn[c].holder = 0 => conn[c].path = PublicSchema

\* the provisioning operations that run the seed-copy step
SeedingOps == TenantOps \cup {"init_database"}

TemplateTables(D) == Range(get_all_tables_except_user(D))

\* reconcile(t) was the last operation, on a schema that existed
Reconciled ==
    /\ ~is_sqlite
    /\ last.op = "migrate_existing_tenant_schema"
    /\ last.result = "ok"
    /\ schema_exists(prev, last.arg)

\* C5: provisioning, reconciling or seeding tenant A leaves the rows of every
\* table of every other schema, the template included, as they were.
C5_OtherSchemasUntouched ==
    (~is_sqlite /\ last.op \in TenantOps) =>
        \A k \in DOMAIN prev.tbl :
            k[1] # SqlIdent(last.arg) =>
                (k \in DOMAIN db.tbl /\ db.tbl[k].rows = prev.tbl[k].rows)

\* C5 (amended): the rows of every table of every other tenant are left as
\* they were, and so are the rows of every template table that held a row; a
\* template seed table found empty receives its fixed starter rows.
C5_OtherSchemasUntouchedUnlessTemplateEmpty ==
    (~is_sqlite /\ last.op \in TenantOps) =>
        \A k \in DOMAIN prev.tbl :
            k[1] # SqlIdent(last.arg) =>
                /\ k \in DOMAIN db.tbl
                /\ \/ db.tbl[k].rows = prev.tbl[k].rows
                   \/ /\ k[1] = PublicSchema
                      /\ k[2] \in SeedTables
                      /\ prev.tbl[k].rows = {}
                      /\ Cardinality(db.tbl[k].rows) = InitialRowCount(k[2])
                      /\ \A r \in db.tbl[k].rows : r.origin = "seed"

\* a tenant was seeded while the template header table was empty and another
\* tenant held rows
C5_Witness ==
    /\ ~is_sqlite
    /\ last.op \in TenantOps
    /\ SqlIdent(last.arg) = NameB
    /\ Rows(prev, PublicSchema, "header") = {}
    /\ RowsOrNone(prev, NameB, "header") = {}
    /\ RowsOrNone(db, NameB, "header") # {}
    /\ RowsOrNone(prev, AdminClient, "company") # {}

\* C6: the seed-copy step adds rows to a tenant seed table only when the table
\* was empty; a tenant table that held rows keeps exactly those rows, and no
\* tenant schema or table disappears.
C6_SeedOnlyIntoEmpty ==
    (~is_sqlite /\ last.op \in SeedingOps) =>
        /\ prev.schemas \subseteq db.schemas
        /\ \A k \in DOMAIN prev.tbl :
              k[1] # PublicSchema =>
                  /\ k \in DOMAIN db.tbl
                  /\ (prev.tbl[k].rows # {} \/ k[2] \notin SeedTables)
                        => db.tbl[k].rows = prev.tbl[k].rows

\* a reconciled tenant whose empty header table was filled while its company
\* table held rows
C6_Witness ==
    /\ ~is_sqlite
    /\ last.op \in SeedingOps
    /\ \E s \in prev.schemas \ {PublicSchema} :
          /\ TableExists(prev, s, "header")
          /\ Rows(prev, s, "header") = {}
          /\ RowsOrNone(prev, s, "company") # {}
          /\ RowsOrNone(db, s, "header") # {}

\* C7: a second provision(t) right after a first one leaves the table set of
\* the tenant schema and the row counts of its four seed tables as the first
\* one left them.
C7_ProvisionTwice ==
    (/\ ~is_sqlite
     /\ last.op = "create_user"
     /\ last.pop = "create_user"
     /\ last.parg = last.arg
     /\ NameIsSafe(last.arg)) =>
        LET s == SqlIdent(last.arg)
        IN  /\ TablesOf(db, s) = TablesOf(prev, s)
            /\ \A t \in SeedTables :
                  Cardinality(RowsOrNone(db, s, t)) = Cardinality(RowsOrNone(prev, s, t))

\* tenant b provisioned twice in a row, holding its seed rows
C7_Witness ==
    /\ ~is_sqlite
    /\ last.op = "create_user"
    /\ last.pop = "create_user"
    /\ last.arg = NameB
    /\ last.parg = NameB
    /\ \A t \in SeedTables : RowsOrNone(db, NameB, t) # {}

\* C8: after reconcile(t) of an existing schema t, t holds every template
\* table.
C8_ReconcileRestoresTables ==
    Reconciled => TemplateTables(db) \subseteq TablesOf(db, last.arg)

\* a reconciled tenant that lacked the news and header tables
C8_Witness ==
    /\ Reconciled
    /\ ~TableExists(prev, last.arg, "news")
    /\ ~TableExists(prev, last.arg, "header")
    /\ TableExists(db, last.arg, "news")

\* C9: reconcile(t) creates exactly the missing tables, empty, the seed-copy
\* step fills those that are seed tables, and every table that was present
\* keeps its structure and its rows.
C9_ReconcileTouchesOnlyMissing ==
    Reconciled =>
        LET s       == last.arg
            before  == TablesOf(prev, s)
            missing == TemplateTables(prev) \ before
        IN  /\ TablesOf(db, s) = before \cup missing
            /\ \A t \in missing :
                  Rows(db, s, t) = IF t \in SeedTables
                                   THEN Rows(db, PublicSchema, t) ELSE {}
            /\ \A t \in before : db.tbl[<<s, t>>] = prev.tbl[<<s, t>>]

\* C9 (amended): as C9, except that a seed table that was present and empty
\* is filled by the seed-copy step too.
C9_ReconcileTouchesOnlyMissingOrEmpty ==
    Reconciled =>
        LET s       == last.arg
            before  == TablesOf(prev, s)
            missing == TemplateTables(prev) \ before
        IN  /\ TablesOf(db, s) = before \cup missing
            /\ \A t \in missing :
                  Rows(db, s, t) = IF t \in SeedTables
                                   THEN Rows(db, PublicSchema, t) ELSE {}
            /\ \A t \in before :
                  /\ db.tbl[<<s, t>>].dflt = prev.tbl[<<s, t>>].dflt
                  /\ \/ db.tbl[<<s, t>>].rows = prev.tbl[<<s, t>>].rows
                     \/ /\ t \in SeedTables
                        /\ prev.tbl[<<s, t>>].rows = {}
                        /\ db.tbl[<<s, t>>].rows = Rows(db, PublicSchema, t)

\* a reconciled tenant whose dropped header table is back with the template's
\* rows
C9_Witness ==
    /\ Reconciled
    /\ ~TableExists(prev, last.arg, "header")
    /\ TableExists(db, last.arg, "header")
    /\ Rows(db, last.arg, "header") # {}
    /\ Rows(db, last.arg, "header") = Rows(db, PublicSchema, "header")

\* C10: a tenant seed table the seed-copy step has just filled is fed by a
\* sequence whose value is at least the largest copied id.
C10_SequenceCoversCopiedIds ==
    (~is_sqlite /\ last.op \in SeedingOps) =>
        \A k \in DOMAIN db.tbl :
            (/\ k[1] # PublicSchema
             /\ k[2] \in SeedTables
             /\ db.tbl[k].rows # {}
             /\ (k \notin DOMAIN prev.tbl \/ prev.tbl[k].rows = {}))
            => /\ db.tbl[k].dflt # NoDefault
               /\ db.seq[db.tbl[k].dflt] >= MaxId(db.tbl[k].rows)

\* the template holds exactly the fixed starter rows: 1 header, 1 contact,
\* 3 company, 5 carrousel, and no row in any other copied table
TemplateHoldsStarterRows(D) ==
    \A t \in TemplateTables(D) :
        Cardinality(Rows(D, PublicSchema, t)) = InitialRowCount(t)

\* provision(t) was the last operation, for a valid t that had no schema
ProvisionedNew ==
    /\ ~is_sqlite
    /\ last.op = "create_user"
    /\ NameIsSafe(last.arg)
    /\ SqlIdent(last.arg) \notin prev.schemas

C12_OtherTablesStillCreated ==
    last.op = "create_user_table_fails" =>
        /\ last.result = "ok"
        /\ SqlIdent(last.arg) \in db.schemas
        /\ Cardinality(TemplateTables(prev) \ TablesOf(db, SqlIdent(last.arg))) <= 1

\* ------------------------------------------------------------------------
\* C13: at a restart every distinct non-empty client of the user table is
\* reconciled on its own: whatever clients of the table make their
\* reconciliation raise, the restart completes and every client with a
\* usable name ends with its schema holding every template table.
\* ------------------------------------------------------------------------
C13_ReconcileAllIsolatesFailures ==
    (last.op = "init_database" /\ ~is_sqlite) =>
        /\ last.result = "ok"
        /\ \A u \in users :
              (validate_schema_name(u, is_sqlite) /\ SqlWellFormed(u)) =>
                  /\ SqlIdent(u) \in db.schemas
                  /\ TemplateTables(db) \subseteq TablesOf(db, SqlIdent(u))

\* a restart with a raising client before and after the administrator's
\* tenant in the loop's order restores a table that tenant had lost
C13_Witness ==
    /\ last.op = "init_database"
    /\ ~is_sqlite
    /\ \E c \in users \ {<<>>} :
          /\ migrate_existing_tenant_schema(prev, c, is_sqlite).result # "ok"
          /\ NameLess(c, AdminClient)
    /\ AdminClient \in prev.schemas
    /\ ~TableExists(prev, AdminClient, "header")
    /\ TableExists(db, AdminClient, "header")
    /\ Cardinality(Rows(db, AdminClient, "header")) = InitialRowCount("header")

C15_ExpiredWebsiteTokenRejected ==
    (/\ auth.op = "verify_token"
     /\ auth.token.sig = "SECRET_KEY"
     /\ auth.token.source = "website"
     /\ auth.token.exp # NoExp
     /\ auth.token.exp < auth.at) =>
        /\ auth.status = "401"
        /\ auth.user = "none"

\* ------------------------------------------------------------------------
\* C16: verify_token synthesizes an identity only from the payload of a
\* token whose signature verifies under SECRET_KEY: a token whose signature
\* does not verify is answered 401 with no identity and no tenant, and a
\* synthesized identity is resolved without any statement that writes.
\* ------------------------------------------------------------------------
C16_IdentityOnlyFromVerifiedSignature ==
    auth.op = "verify_token" =>
        /\ auth.token.sig # "SECRET_KEY" =>
              (auth.status = "401" /\ auth.user = "none")
        /\ auth.user = "MockUser" => (auth.sql = {} /\ db = prev)

C18_SqlitePlainSession ==
    \A r \in Reqs :
        (/\ is_sqlite
         /\ req[r].opener = "get_tenant_session"
         /\ ~IsBlank(req[r].client)
         /\ req[r].state \in {"held", "closed"}
         /\ req[r].seen = {})
        => (/\ req[r].status = "ok"
            /\ req[r].sql = {})

\* ------------------------------------------------------------------------
\* C19: create_public_initial_data is idempotent: it inserts the starter rows
\* of header, contact, company and carrousel only into a template table with
\* no rows, a second call in sequence changes nothing, and a template table
\* that has rows is left as it is, also by the call made at each start-up.
\* ------------------------------------------------------------------------
C19_EnsureSeedDataIdempotent ==
    /\ create_public_initial_data(create_public_initial_data(db))
           = create_public_initial_data(db)
    /\ \A t \in SeedTables :
          IF Rows(db, PublicSchema, t) = {}
          THEN Cardinality(Rows(create_public_initial_data(db), PublicSchema, t))
                   = InitialRowCount(t)
          ELSE Rows(create_public_initial_data(db), PublicSchema, t)
                   = Rows(db, PublicSchema, t)
    /\ last.op = "init_database" =>
          \A t \in SeedTables :
              IF Rows(prev, PublicSchema, t) = {}
              THEN Cardinality(Rows(db, PublicSchema, t)) = InitialRowCount(t)
              ELSE Rows(db, PublicSchema, t) = Rows(prev, PublicSchema, t)

\* a restart found the template header with a row of its own and no starter
\* row, left it alone, and left the other starter rows as they were
C19_Witness ==
    /\ last.op = "init_database"
    /\ \E r \in Rows(prev, PublicSchema, "header") : r.origin = "user"
    /\ \A r \in Rows(prev, PublicSchema, "header") : r.origin # "seed"
    /\ Rows(db, PublicSchema, "header") = Rows(prev, PublicSchema, "header")
    /\ Rows(db, PublicSchema, "carrousel") = Rows(prev, PublicSchema, "carrousel")
    /\ Rows(db, PublicSchema, "carrousel") # {}

\* ------------------------------------------------------------------------
\* C20: when seeding one of the four template entities fails inside
\* create_public_initial_data, only that entity is left unseeded: the other
\* three are still checked and seeded and no exception leaves the seeder.
\* ------------------------------------------------------------------------
C20_SeedFailureIsolated ==
    last.op = "init_database_seed_fails" =>
        /\ last.result = "ok"
        /\ \A t \in SeedTables \ {last.arg[1]} : Rows(db, PublicSchema, t) # {}

\* ------------------------------------------------------------------------
\* C21: after any sequence of provisioning, reconciliation and seed-copy
\* calls no tenant schema holds a table named user2, active_sessions or
\* google_calendar_tokens.
\* ------------------------------------------------------------------------
C21_NoSharedTablesInTenants ==
    \A s \in db.schemas \ {PublicSchema} :
        TablesOf(db, s) \cap ExcludedTables = {}

\* a reconciliation rebuilt a tenant's table list from the template, which
\* holds the three excluded tables
C21_Witness ==
    /\ Reconciled
    /\ ~TableExists(prev, last.arg, "news")
    /\ TablesOf(db, SqlIdent(last.arg)) = TemplateTables(db)
    /\ ExcludedTables \subseteq TablesOf(db, PublicSchema)

\* ------------------------------------------------------------------------
\* C22: every table of a tenant schema, whichever of provisioning,
\* reconciliation or the seed copy created it, has its id default on a
\* sequence of that tenant's schema, never on a sequence of public.
\* ------------------------------------------------------------------------
C22_TenantOwnedSequences ==
    \A s \in db.schemas \ {PublicSchema} :
        \A t \in TablesOf(db, s) :
            db.tbl[<<s, t>>].dflt = SeqOf(s, t)

\* ------------------------------------------------------------------------
\* C25: when the template table list is empty, provisioning a new valid
\* tenant returns without an error and leaves the tenant's schema in
\* existence, with no tables.
\* ------------------------------------------------------------------------
C25_EmptyTemplateLeavesEmptySchema ==
    last.op = "create_user_no_tables" =>
        /\ last.result = "ok"
        /\ SqlIdent(last.arg) \in db.schemas
        /\ TablesOf(db, SqlIdent(last.arg)) = {}

\* ------------------------------------------------------------------------
\* C26: in the seed-copy step a tenant seed table receives rows only from a
\* template table that holds rows: a template table found empty is seeded
\* with its starter rows first, and what the tenant table then receives is
\* the content of the template table as counted after that.
\* ------------------------------------------------------------------------
C26_CopyOnlyFromSeededTemplate ==
    (~is_sqlite /\ last.op \in SeedingOps /\ last.result \in {"ok", "True"}) =>
        \A t \in SeedTables :
            /\ Rows(prev, PublicSchema, t) = {} =>
                  Cardinality(Rows(db, PublicSchema, t)) = InitialRowCount(t)
            /\ \A s \in db.schemas \ {PublicSchema} :
                  (/\ TableExists(db, s, t)
                   /\ Rows(db, s, t) # RowsOrNone(prev, s, t))
                  => (/\ Rows(db, PublicSchema, t) # {}
                      /\ Rows(db, s, t) = Rows(db, PublicSchema, t))

\* a seed copy found the template header empty, seeded it, and copied the
\* new starter row into a tenant header that was empty
C26_Witness ==
    /\ ~is_sqlite
    /\ last.op \in TenantOps
    /\ Rows(prev, PublicSchema, "header") = {}
    /\ TableExists(prev, SqlIdent(last.arg), "header")
    /\ Rows(prev, SqlIdent(last.arg), "header") = {}
    /\ Rows(db, SqlIdent(last.arg), "header") = Rows(db, PublicSchema, "header")
    /\ Cardinality(Rows(db, PublicSchema, "header")) = InitialRowCount("header")

\* ------------------------------------------------------------------------
\* C28: on PostgreSQL, for a tenant id that passes the naming rule, in any
\* letter case, stored as given on the user row and provisioned with
\* success, a tenant session opened for that same string is yielded: its
\* schema-existence check finds the schema provisioning created.
\* ------------------------------------------------------------------------
C28_ProvisionedTenantOpens ==
    \A r \in Reqs :
        (/\ ~is_sqlite
         /\ req[r].opener = "get_tenant_session"
         /\ req[r].state \in {"held", "closed"}
         /\ req[r].client \in users
         /\ validate_schema_name(req[r].client, is_sqlite)
         /\ SqlIdent(req[r].client) \in db.schemas)
        => req[r].status = "ok"

C24_StarterRowsExactlyOnce ==
    \A t \in SeedTables :
        /\ Cardinality(Rows(db, PublicSchema, t)) <= InitialRowCount(t)
        /\ (\E p \in Procs : proc[p].calls > 1
                             \/ (proc[p].calls = 1 /\ proc[p].pc = "idle"))
           => Cardinality(Rows(db, PublicSchema, t)) = InitialRowCount(t)

C29_HandoversBounded == \A p \in Procs : proc[p].hand <= 2

\* a reconciliation that found no schema, handed over to provisioning, which
\* found the schema another worker had committed meanwhile and handed back,
\* has returned
C29_Witness ==
    \E p \in Procs :
        /\ proc[p].hand = 2
        /\ proc[p].pc = "idle"
        /\ proc[p].op = "init_database"
        /\ SqlIdent(proc[p].n) \in db.schemas

\* ------------------------------------------------------------------------
\* C27: however the provisioning and reconciliation calls of the workers on
\* one tenant interleave, each in its own session and transactions, once
\* they have all returned every seed table of the tenant holds exactly the
\* rows of the template table: none twice, none missing.
\* ------------------------------------------------------------------------
C27_TenantSeedMatchesTemplate ==
    (\A p \in Procs : proc[p].pc = "idle")
    => \A s \in db.schemas \ {PublicSchema} :
           \A t \in SeedTables :
               TableExists(db, s, t) => Rows(db, s, t) = Rows(db, PublicSchema, t)

====
